---- MODULE Spec2Model ----
(***************************************************************************)
(* CenDash: the yew component `Model` of src/lib.rs as a state machine.    *)
(*                                                                         *)
(* State: the serializable CenDashData, the two task slots `job` and       *)
(* `job_onload`, the tasks the services have spawned (interval timers and  *)
(* fetches), and the browser's local-storage slot.  One action per Msg     *)
(* handled by Model::update, each delivered either by an operator control  *)
(* of the view or by the timer / fetch callback that produces it.          *)
(* Msg::Done has no producer (callback_done is commented out) and is       *)
(* therefore never delivered.                                              *)
(*                                                                         *)
(* Strings the code only stores or measures (gitref, filter_content,       *)
(* messages) are TLA+ strings; strings the code takes apart (the inventory *)
(* text, its lines and the host names) are sequences of one-character      *)
(* strings.                                                                *)
(***************************************************************************)
EXTENDS Integers, Sequences, FiniteSets, TLC

VARIABLES data, job, job_onload, tasks, storage, last, crashed

vars == <<data, job, job_onload, tasks, storage, last, crashed>>

-----------------------------------------------------------------------------
(* Bounds of the model *)

\* tasks (timers and fetches) spawned in one session
MaxTasks == 4

\* entries of data.messages
MaxMsgs == 2

\* characters of an inventory body given to the parser
MaxTextLen == 3

-----------------------------------------------------------------------------
(* Program constants and input sets *)

\* `if self.data.gitref.len() > 3`
GitRefMinLen == 3

\* values typed into the git-ref input
GitRefs == {"abc", "abcd"}

\* values typed into the filter input: a literal, and an invalid pattern
Filters == {"a", "["}

\* patterns Regex::new rejects
InvalidPatterns == {"["}

\* bodies the inventory endpoint answers with
Texts ==
    { <<"b", "\n">>,
      <<"[", "a", "]", "\n", "a", " ", "b", "\n", "b", "\n", "\n">> }

\* characters of the inventory bodies given to the parser
ParseChars == {"a", " ", "\t", "[", "]", "\n"}

\* Option::None in a task slot
None == 0

-----------------------------------------------------------------------------
(* CenDashData *)

DataFields == {"gitref", "filter_content", "messages", "hosts_all",
               "hosts_picked", "inventory", "logs"}

\* #[derive(Default)]
DefaultData ==
    [gitref |-> "", filter_content |-> "", messages |-> <<>>,
     hosts_all |-> <<>>, hosts_picked |-> <<>>, inventory |-> <<>>,
     logs |-> <<>>]

-----------------------------------------------------------------------------
(* Local storage: the slot DATASTORE_BROWSER_ID.  kind is "absent" (no     *)
(* item) or "json" (a JSON object, obj maps its keys to their values).     *)

AbsentSlot == [kind |-> "absent", obj |-> <<>>]

\* Json(&self.data) as written by StorageService::store: an object with one
\* key per field of CenDashData
JsonEncode(d) == [kind |-> "json", obj |-> [k \in DataFields |-> d[k]]]

\* Json(Ok(data)): serde needs every field of CenDashData (no
\* #[serde(default)]) and ignores other keys
JsonDecodeOk(s) == s.kind = "json" /\ DataFields \subseteq DOMAIN s.obj

JsonDecode(s) == [k \in DataFields |-> s.obj[k]]

\* a record of an earlier revision, without the later `logs` field
LegacySlot ==
    [kind |-> "json",
     obj |-> [k \in DataFields \ {"logs"} |-> DefaultData[k]]]

\* a record a previous session of this program left behind
EarlierSlot ==
    JsonEncode([gitref |-> "abcd", filter_content |-> "",
                messages |-> <<"Aborted!">>,
                hosts_all |-> << <<"a">>, <<"b">> >>,
                hosts_picked |-> << <<"b">> >>,
                inventory |-> << <<"a">>, <<"b">> >>,
                logs |-> <<>>])

InitialSlots == {AbsentSlot, LegacySlot, EarlierSlot}

-----------------------------------------------------------------------------
(* Tasks: tasks[h] is the task behind handle h.  kind is "onload" (the     *)
(* interval sending InventoryLoad), "deploy" (the interval sending         *)
(* DeploySteps) or "fetch"; st is "active", "cancelled" or "done" (a fetch *)
(* whose callback has run).                                                *)

NewTask(k) == [kind |-> k, st |-> "active"]

CancelForgotten(ts, h) == ts

\* Task::cancel
Cancel(ts, h) == [ts EXCEPT ![h].st = "cancelled"]

DropTaskLeak(ts, h) == ts

\* dropping the Box<dyn Task> a slot held, as an assignment to the slot
\* does: the tasks' Drop cancels a task that is still active
DropTask(ts, h) ==
    IF h # None /\ ts[h].st = "active" THEN Cancel(ts, h) ELSE ts

\* has_job in view
has_job == job # None

\* <button disabled=has_job onclick=|_| Msg::Deploy>
deploy_disabled == has_job

\* <button disabled=!has_job onclick=|_| Msg::Abort>
abort_disabled == ~has_job

\* <button onclick=|_| Msg::InventoryLoad>: no disabled attribute
reload_disabled == FALSE

-----------------------------------------------------------------------------
(* Inventory parsing, `Msg::InventoryLoaded(data)` *)

\* str::split("\n") / str::split(" "): the pieces between the separators,
\* empty pieces included
RECURSIVE Split(_, _)
Split(s, c) ==
    IF \E i \in 1..Len(s) : s[i] = c
    THEN LET i == CHOOSE i \in 1..Len(s) :
                      s[i] = c /\ \A j \in 1..(i - 1) : s[j] # c
         IN  <<SubSeq(s, 1, i - 1)>> \o Split(SubSeq(s, i + 1, Len(s)), c)
    ELSE <<s>>

\* Regex::new(&self.data.filter_content) is Ok
RegexValid(f) == f \notin InvalidPatterns

\* Regex::is_match for the patterns of Filters: the empty pattern matches
\* every line, a literal matches the lines that contain it
RegexIsMatch(f, line) == f = "" \/ \E i \in 1..Len(line) : line[i] = f

\* the closure given to .filter()
KeepLine(f, line) ==
    /\ RegexIsMatch(f, line)
    /\ line # <<>>
    /\ ~(Len(line) >= 1 /\ line[1] = "[")
    /\ ~(Len(line) >= 1 /\ line[Len(line)] = "]")
    /\ line # <<"\n">>

\* line.split(" ").take(1).collect::<String>()
FirstToken(line) == Split(line, " ")[1]

RECURSIVE FilterMap(_, _)
FilterMap(f, lines) ==
    IF lines = <<>> THEN <<>>
    ELSE (IF KeepLine(f, Head(lines)) THEN <<FirstToken(Head(lines))>>
          ELSE <<>>) \o FilterMap(f, Tail(lines))

\* data.split("\n").filter(..).map(..).collect()
ParseInventory(f, text) == FilterMap(f, Split(text, "\n"))

\* the sub-lists of s, in the order of s: what SelectElement::selected_values
\* can return for a <select multiple> whose options are s
RECURSIVE SubLists(_)
SubLists(s) ==
    IF s = <<>> THEN {<<>>}
    ELSE LET rest == SubLists(Tail(s))
         IN  rest \cup {<<Head(s)>> \o r : r \in rest}

-----------------------------------------------------------------------------
(* Model::create *)

Init ==
    /\ data = DefaultData
    /\ job = None
    /\ tasks = <<NewTask("onload")>>
    /\ job_onload = 1
    /\ storage \in InitialSlots
    /\ last = [msg |-> "create", src |-> "create", text |-> <<>>]
    /\ crashed = FALSE

\* the Msg being handled and where it comes from: an operator control of
\* the view, an interval timer or a fetch callback
Event(m, from) == [msg |-> m, src |-> from, text |-> <<>>]

\* fn store_state
store_state(d) == JsonEncode(d)

-----------------------------------------------------------------------------
(* Model::update, one handler per Msg *)

\* Msg::InventoryLoad
UpdateInventoryLoad(from) ==
    /\ Len(tasks) < MaxTasks
    /\ tasks' = Append(DropTask(tasks, job), NewTask("fetch"))
    /\ job' = Len(tasks) + 1
    /\ last' = Event("InventoryLoad", from)
    /\ UNCHANGED <<data, job_onload, storage, crashed>>

\* the Reload-Inventory button
ReloadInventory ==
    /\ ~crashed
    /\ UpdateInventoryLoad("operator")

\* callback_onload of an active auto-load interval
AutoloadTick ==
    /\ ~crashed
    /\ \E h \in DOMAIN tasks :
          tasks[h].kind = "onload" /\ tasks[h].st = "active"
    /\ UpdateInventoryLoad("timer")

\* the fetch callback on a non-success status: Msg::InventoryFetching
InventoryFetching ==
    /\ ~crashed
    /\ \E h \in DOMAIN tasks :
          /\ tasks[h].kind = "fetch" /\ tasks[h].st = "active"
          /\ tasks' = [tasks EXCEPT ![h].st = "done"]
    /\ last' = Event("InventoryFetching", "fetch")
    /\ UNCHANGED <<data, job, job_onload, storage, crashed>>

InventoryLoadedNoReset(text, ts) ==
    /\ data' = [data EXCEPT
                  !.inventory = ParseInventory(data.filter_content, text),
                  !.hosts_all = ParseInventory(data.filter_content, text)]
    /\ tasks' = DropTask(DropTask(ts, job), job_onload)
    /\ job' = None
    /\ job_onload' = None
    /\ UNCHANGED <<storage, crashed>>

InventoryLoadedStaleAll(text, ts) ==
    /\ data' = [data EXCEPT
                  !.inventory = ParseInventory(data.filter_content, text),
                  !.hosts_all = data.inventory,
                  !.hosts_picked = data.inventory]
    /\ tasks' = DropTask(DropTask(ts, job), job_onload)
    /\ job' = None
    /\ job_onload' = None
    /\ UNCHANGED <<storage, crashed>>

\* Msg::InventoryLoaded(data) with a filter that compiles; ts is the tasks
\* after the fetch has completed
InventoryLoadedOk(text, ts) ==
    /\ data' = [data EXCEPT
                  !.inventory = ParseInventory(data.filter_content, text),
                  !.hosts_all = ParseInventory(data.filter_content, text),
                  !.hosts_picked = ParseInventory(data.filter_content, text)]
    /\ tasks' = DropTask(DropTask(ts, job), job_onload)
    /\ job' = None
    /\ job_onload' = None
    /\ UNCHANGED <<storage, crashed>>

\* Msg::InventoryLoaded(data) with a filter that does not compile:
\* Regex::new(..).unwrap() panics on the first line, before any field is
\* assigned, and the component processes nothing more
InventoryLoadedPanic(ts) ==
    /\ crashed' = TRUE
    /\ tasks' = ts
    /\ UNCHANGED <<data, job, job_onload, storage>>

\* the fetch callback on a success status, with a body out of bodies:
\* Msg::InventoryLoaded(body)
InventoryLoadedFrom(bodies) ==
    /\ ~crashed
    /\ \E h \in DOMAIN tasks, text \in bodies :
          /\ tasks[h].kind = "fetch" /\ tasks[h].st = "active"
          /\ last' = [msg |-> "InventoryLoaded", src |-> "fetch",
                       text |-> text]
          /\ LET ts == [tasks EXCEPT ![h].st = "done"]
             IN  IF RegexValid(data.filter_content)
                 THEN InventoryLoadedOk(text, ts)
                 ELSE InventoryLoadedPanic(ts)

InventoryLoaded == InventoryLoadedFrom(Texts)

DeployStartAtMinLen ==
    /\ ~crashed
    /\ last' = Event("Deploy", "operator")
    /\ IF Len(data.gitref) >= GitRefMinLen
       THEN /\ Len(tasks) < MaxTasks
            /\ tasks' = Append(DropTask(tasks, job), NewTask("deploy"))
            /\ job' = Len(tasks) + 1
            /\ data' = [data EXCEPT !.messages = <<>>]
       ELSE /\ Len(data.messages) < MaxMsgs
            /\ data' = [data EXCEPT
                          !.messages = Append(@, "Wrong GitRef given!")]
            /\ UNCHANGED <<job, tasks>>
    /\ UNCHANGED <<job_onload, storage, crashed>>

DeployKeepMessages ==
    /\ ~crashed
    /\ last' = Event("Deploy", "operator")
    /\ IF Len(data.gitref) > GitRefMinLen
       THEN /\ Len(tasks) < MaxTasks
            /\ tasks' = Append(DropTask(tasks, job), NewTask("deploy"))
            /\ job' = Len(tasks) + 1
            /\ UNCHANGED data
       ELSE /\ Len(data.messages) < MaxMsgs
            /\ data' = [data EXCEPT
                          !.messages = Append(@, "Wrong GitRef given!")]
            /\ UNCHANGED <<job, tasks>>
    /\ UNCHANGED <<job_onload, storage, crashed>>

\* Msg::Deploy, the Deploy! button
Deploy ==
    /\ ~crashed
    /\ last' = Event("Deploy", "operator")
    /\ IF Len(data.gitref) > GitRefMinLen
       THEN /\ Len(tasks) < MaxTasks
            /\ tasks' = Append(DropTask(tasks, job), NewTask("deploy"))
            /\ job' = Len(tasks) + 1
            /\ data' = [data EXCEPT !.messages = <<>>]
       ELSE /\ Len(data.messages) < MaxMsgs
            /\ data' = [data EXCEPT
                          !.messages = Append(@, "Wrong GitRef given!")]
            /\ UNCHANGED <<job, tasks>>
    /\ UNCHANGED <<job_onload, storage, crashed>>

AbortOnlyWithJob ==
    /\ ~crashed
    /\ last' = Event("Abort", "operator")
    /\ IF job # None
       THEN /\ Len(data.messages) < MaxMsgs
            /\ tasks' = Cancel(tasks, job)
            /\ job' = None
            /\ data' = [data EXCEPT !.messages = Append(@, "Aborted!")]
            /\ storage' = store_state(data')
       ELSE UNCHANGED <<tasks, job, data, storage>>
    /\ UNCHANGED <<job_onload, crashed>>

AbortNoStore ==
    /\ ~crashed
    /\ Len(data.messages) < MaxMsgs
    /\ last' = Event("Abort", "operator")
    /\ tasks' = IF job # None THEN Cancel(tasks, job) ELSE tasks
    /\ job' = None
    /\ data' = [data EXCEPT !.messages = Append(@, "Aborted!")]
    /\ UNCHANGED <<storage, job_onload, crashed>>

\* Msg::Abort, the Abort! button
Abort ==
    /\ ~crashed
    /\ Len(data.messages) < MaxMsgs
    /\ last' = Event("Abort", "operator")
    /\ tasks' = IF job # None THEN Cancel(tasks, job) ELSE tasks
    /\ job' = None
    /\ data' = [data EXCEPT !.messages = Append(@, "Aborted!")]
    /\ storage' = store_state(data')
    /\ UNCHANGED <<job_onload, crashed>>

DeployStepsPrepend ==
    /\ ~crashed
    /\ Len(data.messages) < MaxMsgs
    /\ \E h \in DOMAIN tasks :
          tasks[h].kind = "deploy" /\ tasks[h].st = "active"
    /\ last' = Event("DeploySteps", "timer")
    /\ data' = [data EXCEPT !.messages = <<"DeploySteps!">> \o @]
    /\ storage' = store_state(data')
    /\ UNCHANGED <<job, job_onload, tasks, crashed>>

\* Msg::DeploySteps, callback_deploy of an active deploy interval
DeploySteps ==
    /\ ~crashed
    /\ Len(data.messages) < MaxMsgs
    /\ \E h \in DOMAIN tasks :
          tasks[h].kind = "deploy" /\ tasks[h].st = "active"
    /\ last' = Event("DeploySteps", "timer")
    /\ data' = [data EXCEPT !.messages = Append(@, "DeploySteps!")]
    /\ storage' = store_state(data')
    /\ UNCHANGED <<job, job_onload, tasks, crashed>>

\* fn autoload_inventory, assigned to self.job_onload
Autoload ==
    /\ Len(tasks) < MaxTasks
    /\ tasks' = Append(DropTask(tasks, job_onload), NewTask("onload"))
    /\ job_onload' = Len(tasks) + 1

SetGitRefStoreFirst ==
    /\ ~crashed
    /\ \E gitref \in GitRefs :
          /\ storage' = store_state(data)
          /\ data' = [data EXCEPT !.gitref = gitref]
    /\ last' = Event("SetGitRef", "operator")
    /\ Autoload
    /\ UNCHANGED <<job, crashed>>

\* Msg::SetGitRef(gitref), the git-ref input
SetGitRef ==
    /\ ~crashed
    /\ \E gitref \in GitRefs :
          /\ data' = [data EXCEPT !.gitref = gitref]
          /\ storage' = store_state(data')
    /\ last' = Event("SetGitRef", "operator")
    /\ Autoload
    /\ UNCHANGED <<job, crashed>>

\* Msg::SetContentFilter(filter), the filter input
SetContentFilter ==
    /\ ~crashed
    /\ \E filter \in Filters :
          /\ data' = [data EXCEPT !.filter_content = filter]
          /\ storage' = store_state(data')
    /\ last' = Event("SetContentFilter", "operator")
    /\ Autoload
    /\ UNCHANGED <<job, crashed>>

SetOrUnsetHostSelectNoStore ==
    /\ ~crashed
    /\ \E picked \in SubLists(data.hosts_all) :
          data' = [data EXCEPT !.hosts_picked = picked]
    /\ last' = Event("SetOrUnsetHost", "operator")
    /\ UNCHANGED <<job, job_onload, tasks, storage, crashed>>

\* Msg::SetOrUnsetHost(ChangeData::Select(hosts)), a change of the host
\* list's selection; its options are those rendered from hosts_all
SetOrUnsetHostSelect ==
    /\ ~crashed
    /\ \E picked \in SubLists(data.hosts_all) :
          /\ data' = [data EXCEPT !.hosts_picked = picked]
          /\ storage' = store_state(data')
    /\ last' = Event("SetOrUnsetHost", "operator")
    /\ UNCHANGED <<job, job_onload, tasks, crashed>>

\* Msg::SetOrUnsetHost(ChangeData::Value(_)) and (ChangeData::Files(_))
SetOrUnsetHostNoOp ==
    /\ ~crashed
    /\ \E variant \in {"Value", "Files"} :
          last' = Event("SetOrUnsetHost" \o variant, "operator")
    /\ UNCHANGED <<data, job, job_onload, tasks, storage, crashed>>

\* Msg::StoreData, the Store-State button
StoreData ==
    /\ ~crashed
    /\ storage' = store_state(data)
    /\ last' = Event("StoreData", "operator")
    /\ UNCHANGED <<data, job, job_onload, tasks, crashed>>

restore_state_picked_only ==
    IF JsonDecodeOk(storage)
    THEN data' = [data EXCEPT !.hosts_picked = JsonDecode(storage).hosts_picked]
    ELSE UNCHANGED data

restore_state_default_on_err ==
    IF JsonDecodeOk(storage)
    THEN data' = JsonDecode(storage)
    ELSE data' = DefaultData

\* fn restore_state
restore_state ==
    IF JsonDecodeOk(storage)
    THEN data' = JsonDecode(storage)
    ELSE UNCHANGED data

RestoreDataClearsJob ==
    /\ ~crashed
    /\ restore_state
    /\ last' = Event("RestoreData", "operator")
    /\ tasks' = DropTask(tasks, job)
    /\ job' = None
    /\ UNCHANGED <<job_onload, storage, crashed>>

\* Msg::RestoreData, the Restore-State button
RestoreData ==
    /\ ~crashed
    /\ restore_state
    /\ last' = Event("RestoreData", "operator")
    /\ UNCHANGED <<job, job_onload, tasks, storage, crashed>>

Next ==
    \/ ReloadInventory
    \/ AutoloadTick
    \/ InventoryFetching
    \/ InventoryLoaded
    \/ Deploy
    \/ Abort
    \/ DeploySteps
    \/ SetGitRef
    \/ SetContentFilter
    \/ SetOrUnsetHostSelect
    \/ SetOrUnsetHostNoOp
    \/ StoreData
    \/ RestoreData

Spec == Init /\ [][Next]_vars

-----------------------------------------------------------------------------
(* The inventory parser on every short body: the first load of a session   *)
(* (filter_content is still the empty pattern, which matches every line),  *)
(* answered with any text of at most MaxTextLen characters.                *)

ParseTexts == UNION {[1..n -> ParseChars] : n \in 0..MaxTextLen}

InventoryLoadedAnyText == InventoryLoadedFrom(ParseTexts)

NextParse ==
    \/ AutoloadTick
    \/ InventoryLoadedAnyText

SpecParse == Init /\ [][NextParse]_vars

-----------------------------------------------------------------------------
(* Properties *)

\* the task h is an interval that still fires or a fetch still in flight
Live(h) == tasks[h].st = "active"

\* the job slot holds a deploy-tick interval that still fires
DeployTicking ==
    job # None /\ tasks[job].kind = "deploy" /\ tasks[job].st = "active"

IsPrefix(s, t) == Len(s) <= Len(t) /\ SubSeq(t, 1, Len(s)) = s

Consistent == storage = JsonEncode(data)

\* the Msgs whose handler calls store_state
PersistingMsgs ==
    {"DeploySteps", "Abort", "SetGitRef", "SetContentFilter",
     "SetOrUnsetHost", "StoreData"}

\* C1: after create and after every Msg, every live interval or in-flight
\* fetch is held by exactly one of the slots job and job_onload, so a handle
\* that a slot no longer holds has been cancelled (or has completed).
NoOrphanTask ==
    /\ job \in {None} \cup DOMAIN tasks
    /\ job_onload \in {None} \cup DOMAIN tasks
    /\ \A h \in DOMAIN tasks :
          Live(h) => \/ (job = h /\ job_onload # h)
                     \/ (job # h /\ job_onload = h)

\* C1 witness: an InventoryLoad has replaced a running deploy interval, which
\* is now cancelled, and a SetGitRef/SetContentFilter has replaced the first
\* auto-load interval.
NoOrphanTaskWitness ==
    /\ last.msg = "InventoryLoad"
    /\ job = Len(tasks) /\ Live(job)
    /\ tasks[job - 1].kind = "deploy" /\ tasks[job - 1].st = "cancelled"
    /\ tasks[1].st = "cancelled"
    /\ job_onload # None /\ Live(job_onload)

\* C2: Deploy with a gitref of length <= 3 appends exactly one
\* "Wrong GitRef given!" to messages, changes no other field of the data,
\* starts no task and leaves both slots as they were.
DeployShortGitRef ==
    [][(last'.msg = "Deploy" /\ Len(data.gitref) <= 3)
         => /\ data' = [data EXCEPT
                          !.messages = Append(@, "Wrong GitRef given!")]
            /\ job' = job
            /\ job_onload' = job_onload
            /\ tasks' = tasks]_vars

\* C2 witness: Deploy was refused for the three-character gitref while no job
\* was active.
DeployShortGitRefWitness ==
    /\ last.msg = "Deploy"
    /\ data.gitref = "abc"
    /\ data.messages = <<"Wrong GitRef given!">>
    /\ ~has_job

\* C3: Deploy with a gitref longer than 3 leaves messages empty and the job
\* slot holding a live deploy-tick interval, whatever the slot held before.
DeployLongGitRef ==
    [][(last'.msg = "Deploy" /\ Len(data.gitref) > 3)
         => /\ data'.messages = <<>>
            /\ job' # None
            /\ tasks'[job'].kind = "deploy"
            /\ tasks'[job'].st = "active"]_vars

\* C3 witness: a deploy has started over a fetch that was in flight, with a
\* message log that was not empty at some point before.
DeployLongGitRefWitness ==
    /\ last.msg = "Deploy"
    /\ DeployTicking
    /\ job = Len(tasks)
    /\ tasks[job - 1].kind = "fetch" /\ tasks[job - 1].st = "cancelled"
    /\ data.messages = <<>>
    /\ JsonDecodeOk(storage) /\ storage.obj.messages # <<>>

\* C4: once the job slot holds a running deploy interval, it keeps holding
\* it, running, across every event other than Abort.
DeployRunsUntilAbort ==
    [][(DeployTicking /\ last'.msg # "Abort")
         => (job' = job /\ tasks'[job].st = "active")]_vars

\* C5: every Abort leaves the job slot empty and the handle it held
\* cancelled, and appends exactly one "Aborted!" to messages, with or
\* without a job; it never fails.
AbortIdempotent ==
    [][last'.msg = "Abort"
         => /\ job' = None
            /\ (job # None => tasks'[job].st = "cancelled")
            /\ data'.messages = Append(data.messages, "Aborted!")
            /\ ~crashed']_vars

\* C5 witness: two Aborts have been processed, the first of which cancelled
\* a job, and both have left their entry.
AbortIdempotentWitness ==
    /\ last.msg = "Abort"
    /\ ~has_job
    /\ Len(data.messages) >= 2
    /\ data.messages[Len(data.messages)] = "Aborted!"
    /\ data.messages[Len(data.messages) - 1] = "Aborted!"
    /\ \E h \in DOMAIN tasks :
          tasks[h].kind = "deploy" /\ tasks[h].st = "cancelled"

\* C6 as stated: Abort with an empty job slot changes neither the data, the
\* stored record nor the slots.
AbortWithoutJobNoOp ==
    [][(last'.msg = "Abort" /\ job = None)
         => UNCHANGED <<data, storage, job, job_onload>>]_vars

\* C6 as amended: Abort with an empty job slot is not an error and leaves
\* both slots, every task and every field other than messages unchanged; it
\* appends "Aborted!" to messages and writes the resulting data to storage.
AbortWithoutJobEffect ==
    [][(last'.msg = "Abort" /\ job = None)
         => /\ data' = [data EXCEPT !.messages = Append(@, "Aborted!")]
            /\ storage' = JsonEncode(data')
            /\ ~crashed'
            /\ UNCHANGED <<job, job_onload, tasks>>]_vars

\* C6 witness: Abort was processed in a session whose job slot has never
\* held anything (only auto-load intervals were ever spawned).
AbortWithoutJobWitness ==
    /\ last.msg = "Abort"
    /\ \A h \in DOMAIN tasks : tasks[h].kind = "onload"
    /\ data.messages = <<"Aborted!">>
    /\ Consistent

\* C7: right after an InventoryLoaded(text) handled with a filter that
\* compiles, inventory is the list parsed from text and hosts_all and
\* hosts_picked are equal to it.
InventoryLoadedResets ==
    (last.msg = "InventoryLoaded" /\ ~crashed)
       => /\ data.inventory = ParseInventory(data.filter_content, last.text)
          /\ data.hosts_all = data.inventory
          /\ data.hosts_picked = data.inventory

\* C7 witness: the one-host inventory was loaded over the two-host list of
\* which the operator had picked only the first host (the selection is still
\* in the record stored in this session).
InventoryLoadedResetsWitness ==
    /\ last.msg = "InventoryLoaded" /\ ~crashed
    /\ last.text = <<"b", "\n">>
    /\ data.hosts_picked = << <<"b">> >>
    /\ JsonDecodeOk(storage)
    /\ storage.obj.gitref = ""
    /\ storage.obj.hosts_all = << <<"a">>, <<"b">> >>
    /\ storage.obj.hosts_picked = << <<"a">> >>

\* C8: in every reachable state every element of hosts_picked is an element
\* of hosts_all.
PickedSubsetOfAll ==
    \A i \in 1..Len(data.hosts_picked) :
       \E j \in 1..Len(data.hosts_all) :
          data.hosts_picked[i] = data.hosts_all[j]

\* C8 witness: a restore has brought back a two-host list with one host
\* picked over a session that had loaded a different list.
PickedSubsetOfAllWitness ==
    /\ last.msg = "RestoreData"
    /\ data.hosts_all = << <<"a">>, <<"b">> >>
    /\ data.hosts_picked = << <<"b">> >>
    /\ data.inventory = << <<"a">>, <<"b">> >>
    /\ \E h \in DOMAIN tasks : tasks[h].kind = "fetch" /\ tasks[h].st = "done"

\* C9 as stated: across every event, messages is emptied by a Deploy with a
\* gitref longer than 3, or else the old messages are a prefix of the new.
MessagesOnlyAppendOrDeployClears ==
    [][\/ IsPrefix(data.messages, data'.messages)
       \/ /\ last'.msg = "Deploy" /\ Len(data.gitref) > 3
          /\ data'.messages = <<>>]_vars

\* C9 as amended: across every event, messages is emptied by a Deploy with a
\* gitref longer than 3, or replaced by the messages of the stored record by
\* a RestoreData that finds a well-formed record, or else the old messages
\* are a prefix of the new.
MessagesAppendClearOrRestore ==
    [][\/ IsPrefix(data.messages, data'.messages)
       \/ /\ last'.msg = "Deploy" /\ Len(data.gitref) > 3
          /\ data'.messages = <<>>
       \/ /\ last'.msg = "RestoreData" /\ JsonDecodeOk(storage)
          /\ data'.messages = storage.obj.messages]_vars

\* C9 witness: a restore has brought back the stored one-entry log in a
\* session in which a deployment was started (which had emptied the log).
MessagesRestoreWitness ==
    /\ last.msg = "RestoreData"
    /\ Consistent
    /\ data.messages = <<"Aborted!">>
    /\ \E h \in DOMAIN tasks :
          tasks[h].kind = "deploy" /\ tasks[h].st = "active"

\* C10 as stated: once the stored record equals the data, it equals the data
\* after every further event.
StorageFollowsEveryEvent ==
    [][Consistent => Consistent']_vars

\* C10 as amended: the stored record equals the data after every event whose
\* handler calls store_state (DeploySteps, Abort, SetGitRef,
\* SetContentFilter, SetOrUnsetHost with a selection, StoreData), and every
\* other event except Deploy and InventoryLoaded, which change the data
\* without writing it, keeps the two equal once they are.
StorageFollowsPersistingEvents ==
    [][/\ (last'.msg \in PersistingMsgs => Consistent')
       /\ ((Consistent /\ last'.msg \notin {"Deploy", "InventoryLoaded"})
              => Consistent')]_vars

\* C10 witness: a selection of one host out of two has just been made and
\* the stored record holds it.
StorageFollowsWitness ==
    /\ last.msg = "SetOrUnsetHost"
    /\ Len(data.hosts_all) = 2
    /\ Len(data.hosts_picked) = 1
    /\ Consistent

\* C11: StoreData immediately followed by RestoreData leaves the data as it
\* was before the two, field for field, and every RestoreData that finds a
\* well-formed record leaves the data equal to the record stored last.
StoreRestoreIdentity ==
    [][last'.msg = "RestoreData"
         => /\ (last.msg = "StoreData" => data' = data)
            /\ (JsonDecodeOk(storage)
                  => \A k \in DataFields : data'[k] = storage.obj[k])]_vars

\* C11 witness: a restore has brought back a record of this session (an
\* inventory loaded into a session whose gitref was never set) that holds
\* the refusal of a Deploy, which only a later store can have written.
StoreRestoreIdentityWitness ==
    /\ last.msg = "RestoreData"
    /\ Consistent
    /\ data.gitref = ""
    /\ data.inventory # <<>>
    /\ data.messages = <<"Wrong GitRef given!">>

\* C12: RestoreData over an absent slot or a record that does not
\* deserialize leaves the data, both slots, every task and the storage slot
\* unchanged, and the component keeps processing events.
RestoreMissLeavesState ==
    [][(last'.msg = "RestoreData" /\ ~JsonDecodeOk(storage))
         => /\ UNCHANGED <<data, job, job_onload, tasks, storage>>
            /\ ~crashed']_vars

\* C12 witness: a restore over the legacy record has left a session with a
\* loaded inventory, a logged message and a fetch in flight as it was.
RestoreMissWitness ==
    /\ last.msg = "RestoreData"
    /\ storage = LegacySlot
    /\ data.inventory # <<>>
    /\ data.messages # <<>>
    /\ job # None /\ Live(job)
    /\ ~crashed

\* C13 as stated: right after any RestoreData the job slot is empty.
NoJobAfterRestore ==
    last.msg = "RestoreData" => job = None

\* C13 as amended: RestoreData never touches the job handles: both slots and
\* every task are the same right after the restore as right before it (the
\* stored record holds no handle), so the slot is empty after a restore
\* exactly when it was empty before.
RestoreKeepsJobs ==
    [][last'.msg = "RestoreData"
         => /\ UNCHANGED <<job, job_onload, tasks>>
            /\ DOMAIN storage.obj \subseteq DataFields]_vars

\* C13 witness: a restore of a well-formed record has been processed while
\* a deploy interval was running, and it still runs.
RestoreKeepsJobsWitness ==
    /\ last.msg = "RestoreData"
    /\ Consistent
    /\ DeployTicking
    /\ data.messages # <<>>

\* C14: an InventoryLoaded handled while filter_content is not a valid
\* regular expression does not stop the component and leaves inventory,
\* hosts_all and hosts_picked as they were.
BadFilterFailsOneLoad ==
    [][(last'.msg = "InventoryLoaded" /\ ~RegexValid(data.filter_content))
         => /\ ~crashed'
            /\ data'.inventory = data.inventory
            /\ data'.hosts_all = data.hosts_all
            /\ data'.hosts_picked = data.hosts_picked]_vars

\* the job slot holds a fetch whose callback has run without a successful
\* load: the machine is still in Loading
FailedLoad ==
    job # None /\ tasks[job].kind = "fetch" /\ tasks[job].st = "done"

\* an interval that will send InventoryLoad without operator action
RetryPending ==
    \E h \in DOMAIN tasks : tasks[h].kind = "onload" /\ tasks[h].st = "active"

\* C15: a failed fetch is always retried: whenever the component sits in
\* Loading after a fetch that resolved without success, an auto-load
\* interval is active that will issue the next InventoryLoad, whoever
\* started the failed load.
FailedFetchIsRetried ==
    (FailedLoad /\ ~crashed) => RetryPending

\* C16: the auto-load job is one-shot: once an auto-load job has delivered
\* its InventoryLoad, no auto-load interval is left to deliver a second one
\* while the fetch it started is in flight.
AutoloadOneShot ==
    (last.msg = "InventoryLoad" /\ last.src = "timer") => ~RetryPending

\* whitespace inside a line
IsSpace(c) == c \in {" ", "\t"}

\* the first whitespace-delimited token of a line
RECURSIVE RefToken(_)
RefToken(line) ==
    IF line = <<>> THEN <<>>
    ELSE IF IsSpace(Head(line)) THEN RefToken(Tail(line))
    ELSE LET stops == {i \in 1..Len(line) : IsSpace(line[i])}
             end == IF stops = {} THEN Len(line)
                    ELSE (CHOOSE i \in stops : \A j \in stops : i <= j) - 1
         IN  SubSeq(line, 1, end)

\* the lines the reference parse keeps
RefKeep(line) ==
    line # <<>> /\ line[1] # "[" /\ line[Len(line)] # "]"

RECURSIVE RefMap(_)
RefMap(lines) ==
    IF lines = <<>> THEN <<>>
    ELSE (IF RefKeep(Head(lines)) THEN <<RefToken(Head(lines))>> ELSE <<>>)
         \o RefMap(Tail(lines))

\* the reference parse: the kept lines, in order, each replaced by its first
\* whitespace-delimited token
ReferenceParse(text) == RefMap(Split(text, "\n"))

\* every line the reference parse keeps has a token
EveryKeptLineHasToken(text) ==
    LET lines == Split(text, "\n")
    IN  \A i \in 1..Len(lines) :
           RefKeep(lines[i]) => RefToken(lines[i]) # <<>>

\* C17: with a match-everything filter, the list InventoryLoaded produces
\* from a text (whose kept lines all have a token) equals the reference
\* parse of the text: the lines that are non-empty, do not start with '['
\* and do not end with ']', each replaced by its first whitespace-delimited
\* token.
ParseMatchesReference ==
    (/\ last.msg = "InventoryLoaded" /\ ~crashed
     /\ data.filter_content = ""
     /\ EveryKeptLineHasToken(last.text))
       => data.inventory = ReferenceParse(last.text)

\* C18: DeploySteps is handled only while the job slot holds the running
\* deploy interval, and InventoryLoaded / InventoryFetching only while the
\* job slot holds the fetch, then in flight, whose callback sends it; so no
\* DeploySteps is handled after Abort or after the slot was replaced, and
\* InventoryLoaded never empties a slot holding a deploy interval.
EventsMatchJob ==
    [][/\ (last'.msg = "DeploySteps" => DeployTicking)
       /\ (last'.msg \in {"InventoryLoaded", "InventoryFetching"}
             => /\ job # None
                /\ tasks[job].kind = "fetch"
                /\ tasks[job].st = "active"
                /\ tasks'[job].st = "done")]_vars

\* C18 witness: the first tick has been handled by a deployment that runs
\* in a session in which a fetch in flight was cancelled.
EventsMatchJobWitness ==
    /\ last.msg = "DeploySteps"
    /\ DeployTicking
    /\ \E h \in DOMAIN tasks :
          tasks[h].kind = "fetch" /\ tasks[h].st = "cancelled"
    /\ data.messages = <<"DeploySteps!">>

\* C19: right after each of DeploySteps, Abort, SetGitRef, SetContentFilter,
\* SetOrUnsetHost with a selection and StoreData, every field of the stored
\* record is the field of the data as the event has left it, and the value
\* and files variants of SetOrUnsetHost change neither data nor storage.
PersistingEventsWriteResult ==
    [][/\ (last'.msg \in PersistingMsgs
             => /\ storage'.kind = "json"
                /\ DOMAIN storage'.obj = DataFields
                /\ \A k \in DataFields : storage'.obj[k] = data'[k])
       /\ (last'.msg \in {"SetOrUnsetHostValue", "SetOrUnsetHostFiles"}
             => UNCHANGED <<data, storage>>)]_vars

\* C19 witness: a SetGitRef has just changed the gitref of a session with a
\* logged message, and the stored record holds the new gitref.
PersistingEventsWitness ==
    /\ last.msg = "SetGitRef"
    /\ data.gitref = "abcd"
    /\ data.messages = <<"Wrong GitRef given!">>
    /\ storage.kind = "json"
    /\ storage.obj.gitref = "abcd"
    /\ storage.obj.messages = <<"Wrong GitRef given!">>

\* C20: the rendered controls follow the job slot: Deploy and
\* Reload-Inventory are disabled whenever a job is active, Abort whenever
\* none is.
ControlsFollowJob ==
    /\ has_job => (deploy_disabled /\ reload_disabled)
    /\ ~has_job => abort_disabled

====
